---- MODULE Spec2Model ----
(***************************************************************************)
(* Model of StrictModelPlugin (src/index.js): the plugin captures the      *)
(* schema's path names and two option flags, and registers restrictSelect  *)
(* as a pre hook of six query operations.  restrictSelect validates the    *)
(* query's filter keys against the paths, then rewrites the query's        *)
(* projection (_fields) or throws.                                         *)
(*                                                                         *)
(* A field name is a JavaScript string, modelled as a sequence of one-     *)
(* character strings, because restrictSelect hands the paths to            *)
(* query.select as ONE string joined with spaces, which select splits on   *)
(* whitespace again.  A projection (query._fields) is an object whose keys *)
(* keep insertion order: a sequence of [name, marker] records with         *)
(* distinct names.  Markers are 1 (include) and 0 (exclude).               *)
(***************************************************************************)
EXTENDS Integers, Sequences, FiniteSets

VARIABLES
    paths,                              \* closure: the schema's path names
    allowNonModelQueryParameters,       \* closure: option flag
    allowNonModelSelectionParameters,   \* closure: option flag
    op,                                 \* the query's operation kind
    conditions,                         \* the keys of query.getQuery(), in key order
    fields,                             \* query._fields
    given,                              \* query._fields as the caller built it
    entry,                              \* query._fields on entry to the last restrictSelect
    outcome,                            \* how the last restrictSelect ended
    prevOutcome,                        \* how the one before it ended
    nextLog,                            \* query._fields at each call of next() by the last restrictSelect
    runs                                \* invocations of restrictSelect on this query

vars == <<paths, allowNonModelQueryParameters, allowNonModelSelectionParameters,
          op, conditions, fields, given, entry, outcome, prevOutcome, nextLog, runs>>

----------------------------------------------------------------------------
(* Bounds *)

MaxPaths == 2
MaxFilterKeys == 2
MaxProjection == 2
MaxRuns == 2

\* The field names in play: two plain names and one that holds a space.
FieldNames == { <<"a">>, <<"b">>, <<"a", " ", "b">> }

Markers == {0, 1}

Ops == {"count", "find", "findOne", "findOneAndRemove", "findOneAndUpdate", "update"}

----------------------------------------------------------------------------
(* JavaScript helpers *)

Range(s) == { s[i] : i \in 1..Len(s) }

\* sequences over S of length at most n without repeated elements
DistinctSeqs(S, n) ==
    { s \in UNION { [1..k -> S] : k \in 0..n } :
        \A i, j \in 1..Len(s) : i # j => s[i] # s[j] }

\* Object.keys(map)
Keys(map) == [i \in 1..Len(map) |-> map[i].name]

\* arr.indexOf(x) > -1
Has(arr, x) == x \in Range(arr)

\* map[name] === 0
IsExcluded(map, name) ==
    \E i \in 1..Len(map) : map[i].name = name /\ map[i].marker = 0

\* map[name] = marker: an existing key keeps its place, a new key goes last
Put(map, name, marker) ==
    IF \E i \in 1..Len(map) : map[i].name = name
    THEN [i \in 1..Len(map) |->
            IF map[i].name = name THEN [name |-> name, marker |-> marker] ELSE map[i]]
    ELSE Append(map, [name |-> name, marker |-> marker])

\* paths.join(' ')
RECURSIVE Join(_)
Join(arr) ==
    IF Len(arr) = 0 THEN <<>>
    ELSE IF Len(arr) = 1 THEN arr[1]
    ELSE arr[1] \o <<" ">> \o Join(Tail(arr))

\* str.split(/\s+/), scanning from position i with the token cur under way
RECURSIVE SplitFrom(_, _, _)
SplitFrom(str, i, cur) ==
    IF i > Len(str) THEN << cur >>
    ELSE IF str[i] = " "
         THEN IF i > 1 /\ str[i - 1] = " "
              THEN SplitFrom(str, i + 1, cur)
              ELSE << cur >> \o SplitFrom(str, i + 1, <<>>)
         ELSE SplitFrom(str, i + 1, Append(cur, str[i]))

Split(str) == SplitFrom(str, 1, <<>>)

\* the loop of Query#select over the tokens of a string argument
RECURSIVE SelectTokens(_, _)
SelectTokens(map, tokens) ==
    IF Len(tokens) = 0 THEN map
    ELSE LET field == tokens[1] IN
         IF Len(field) = 0 THEN SelectTokens(map, Tail(tokens))
         ELSE IF field[1] = "-"
              THEN SelectTokens(Put(map, Tail(field), 0), Tail(tokens))
              ELSE SelectTokens(Put(map, field, 1), Tail(tokens))

\* query.select(str): an empty string selects nothing
select(map, str) ==
    IF Len(str) = 0 THEN map ELSE SelectTokens(map, Split(str))


----------------------------------------------------------------------------
(* restrictSelect, branch by branch *)

Thrown(kind, map) == [outcome |-> kind, fields |-> map, nextLog |-> <<>>]

\* query._fields = newSelectQuery; return next();
Proceed(newSelectQuery) ==
    [outcome |-> "proceed", fields |-> newSelectQuery, nextLog |-> << newSelectQuery >>]

\* the filter loop throws: some query field is not among the paths
FilterThrows_FirstKeyOnly(queryFields) ==
    /\ ~allowNonModelQueryParameters
    /\ Len(queryFields) > 0
    /\ ~Has(paths, queryFields[1])

FilterThrows(queryFields) ==
    /\ ~allowNonModelQueryParameters
    /\ \E queryFieldIndex \in 1..Len(queryFields) :
          ~Has(paths, queryFields[queryFieldIndex])

\* no projection: query.select(paths.join(' '))
SelectAll(map) == select(map, Join(paths))

\* the inclusion loop's newSelectQuery: the requested fields that are paths
RECURSIVE InclusionFrom(_, _)
InclusionFrom(map, projFieldIndex) ==
    IF projFieldIndex > Len(map) THEN <<>>
    ELSE LET projField == map[projFieldIndex].name
             rest == InclusionFrom(map, projFieldIndex + 1)
         IN  IF Has(paths, projField)
             THEN << [name |-> projField, marker |-> 1] >> \o rest
             ELSE rest

InclusionSelect_SkipFirst(map) == InclusionFrom(map, 2)

InclusionSelect(map) == InclusionFrom(map, 1)

\* the inclusion loop throws: a requested field is no path, and the option is off
InclusionThrows_Never(map) == FALSE

InclusionThrows(map) ==
    /\ ~allowNonModelSelectionParameters
    /\ \E projFieldIndex \in 1..Len(map) : ~Has(paths, map[projFieldIndex].name)

\* the exclusion loop's newSelectQuery: the paths the projection does not mark 0
RECURSIVE ExclusionFrom(_, _)
ExclusionFrom(map, pathIndex) ==
    IF pathIndex > Len(paths) THEN <<>>
    ELSE LET path == paths[pathIndex]
             rest == ExclusionFrom(map, pathIndex + 1)
         IN  IF ~IsExcluded(map, path)
             THEN << [name |-> path, marker |-> 1] >> \o rest
             ELSE rest

RECURSIVE ExclusionFrom_Inverted(_, _)
ExclusionFrom_Inverted(map, pathIndex) ==
    IF pathIndex > Len(paths) THEN <<>>
    ELSE LET path == paths[pathIndex]
             rest == ExclusionFrom_Inverted(map, pathIndex + 1)
         IN  IF IsExcluded(map, path)
             THEN << [name |-> path, marker |-> 1] >> \o rest
             ELSE rest

ExclusionSelect_Inverted(map) == ExclusionFrom_Inverted(map, 1)

ExclusionSelect(map) == ExclusionFrom(map, 1)

\* Object.keys(newSelectQuery).length !== paths.length - projectionFields.length
CountMismatch_NoSubtraction(map) == Len(ExclusionSelect(map)) # Len(paths)

CountMismatch(map) == Len(ExclusionSelect(map)) # Len(paths) - Len(map)

ExclusionThrows(map) == CountMismatch(map) /\ ~allowNonModelSelectionParameters

ExclusionBranch_AssignFirst(map) ==
    IF ExclusionThrows(map)
    THEN Thrown("UnknownSelectionField", ExclusionSelect(map))
    ELSE Proceed(ExclusionSelect(map))

ExclusionBranch(map) ==
    IF ExclusionThrows(map)
    THEN Thrown("UnknownSelectionField", map)
    ELSE Proceed(ExclusionSelect(map))

InclusionBranch(map) ==
    IF InclusionThrows(map)
    THEN Thrown("UnknownSelectionField", map)
    ELSE Proceed(InclusionSelect(map))

\* the projection half of restrictSelect
Projection(map) ==
    IF Len(Keys(map)) = 0 THEN Proceed(SelectAll(map))
    ELSE IF map[1].marker = 1 THEN InclusionBranch(map)
    ELSE ExclusionBranch(map)

\* restrictSelect with the projection looked at before the filter
Guard_ProjectionFirst(queryFields, map) ==
    IF Projection(map).outcome # "proceed" THEN Projection(map)
    ELSE IF FilterThrows(queryFields) THEN Thrown("UnknownFilterField", map)
    ELSE Projection(map)

\* restrictSelect(query, next) as a function of the query it is given
Guard(queryFields, map) ==
    IF FilterThrows(queryFields) THEN Thrown("UnknownFilterField", map)
    ELSE Projection(map)

----------------------------------------------------------------------------
(* The state machine *)

Init ==
    /\ paths \in DistinctSeqs(FieldNames, MaxPaths)
    /\ allowNonModelQueryParameters \in BOOLEAN
    /\ allowNonModelSelectionParameters \in BOOLEAN
    /\ op \in Ops
    /\ conditions = <<>>
    /\ fields = <<>>
    /\ given = <<>>
    /\ entry = <<>>
    /\ outcome = "pending"
    /\ prevOutcome = "pending"
    /\ nextLog = <<>>
    /\ runs = 0

closure == <<paths, allowNonModelQueryParameters, allowNonModelSelectionParameters>>

\* the application starts a new query of some kind
NewQuery ==
    /\ \E kind \in Ops : op' = kind
    /\ conditions' = <<>>
    /\ fields' = <<>>
    /\ given' = <<>>
    /\ entry' = <<>>
    /\ outcome' = "pending"
    /\ prevOutcome' = "pending"
    /\ nextLog' = <<>>
    /\ runs' = 0
    /\ UNCHANGED closure

\* the application adds a filter condition on some field
where ==
    /\ runs = 0
    /\ Len(conditions) < MaxFilterKeys
    /\ \E key \in FieldNames \ Range(conditions) : conditions' = Append(conditions, key)
    /\ UNCHANGED <<closure, op, fields, given, entry, outcome, prevOutcome, nextLog, runs>>

\* the application adds a projection entry for some field
selectField ==
    /\ runs = 0
    /\ Len(fields) < MaxProjection
    /\ \E name \in FieldNames \ Range(Keys(fields)), marker \in Markers :
          /\ fields' = Put(fields, name, marker)
          /\ given' = fields'
    /\ UNCHANGED <<closure, op, conditions, entry, outcome, prevOutcome, nextLog, runs>>

\* one invocation of restrictSelect on the query
restrictSelect ==
    /\ runs < MaxRuns
    /\ LET r == Guard(conditions, fields) IN
          /\ outcome' = r.outcome
          /\ fields' = r.fields
          /\ nextLog' = r.nextLog
    /\ entry' = fields
    /\ prevOutcome' = outcome
    /\ runs' = runs + 1
    /\ UNCHANGED <<closure, op, conditions, given>>

pre_count == op = "count" /\ restrictSelect
pre_find == op = "find" /\ restrictSelect
pre_findOne == op = "findOne" /\ restrictSelect
pre_findOneAndRemove == op = "findOneAndRemove" /\ restrictSelect
pre_findOneAndUpdate == op = "findOneAndUpdate" /\ restrictSelect
pre_update == op = "update" /\ restrictSelect

Next ==
    \/ NewQuery
    \/ where
    \/ selectField
    \/ pre_count
    \/ pre_find
    \/ pre_findOne
    \/ pre_findOneAndRemove
    \/ pre_findOneAndUpdate
    \/ pre_update

Spec == Init /\ [][Next]_vars

----------------------------------------------------------------------------
(* Vocabulary of the properties *)

S == Range(paths)

Ran == runs > 0

Rejected == outcome \in {"UnknownFilterField", "UnknownSelectionField"}

\* every filter key is a schema path
FilterValid == \A k \in Range(conditions) : k \in S

KeySet(map) == Range(Keys(map))

\* a projection as a mapping, key order put aside
Entries(map) == Range(map)

Including(names) == { [name |-> f, marker |-> 1] : f \in names }

AllInclude(map) == Len(map) > 0 /\ \A i \in 1..Len(map) : map[i].marker = 1

AllExclude(map) == Len(map) > 0 /\ \A i \in 1..Len(map) : map[i].marker = 0

Uniform(map) == Len(map) = 0 \/ AllInclude(map) \/ AllExclude(map)

\* the fields of a stored document: the names in play and the bare name "c"
StoredFields == FieldNames \cup { <<"c">> }

\* what the store returns for a projection: everything for an empty one, the
\* included fields when fields are included, else all but the excluded ones
Returned(map) ==
    IF Len(map) = 0 THEN StoredFields
    ELSE IF \E e \in Entries(map) : e.marker = 1
         THEN { e.name : e \in { x \in Entries(map) : x.marker = 1 } } \cap StoredFields
         ELSE StoredFields \ KeySet(map)

----------------------------------------------------------------------------
(* C1: with allowNonModelQueryParameters unset, restrictSelect ends in
   UnknownFilterField exactly when some filter key is not a schema path;
   with the flag set it never ends in UnknownFilterField. *)
C1_FilterValidation ==
    Ran =>
        /\ ~allowNonModelQueryParameters =>
              (outcome = "UnknownFilterField" <=> ~FilterValid)
        /\ allowNonModelQueryParameters => outcome # "UnknownFilterField"

\* a strict run rejected for a filter whose first key is valid and second is not
C1_Witness ==
    /\ Ran
    /\ ~allowNonModelQueryParameters
    /\ Len(conditions) = 2
    /\ conditions[1] \in S
    /\ conditions[2] \notin S
    /\ outcome = "UnknownFilterField"

(* C2: when the projection is empty on entry and the filter is valid,
   restrictSelect proceeds and the final projection is exactly
   {f -> include : f in S}. *)
C2_EmptyProjectionSelectsAll ==
    (Ran /\ Len(entry) = 0 /\ FilterValid) =>
        /\ outcome = "proceed"
        /\ Entries(fields) = Including(S)

(* C3: a non-empty all-include projection whose keys are all schema paths,
   with a valid filter, proceeds and is left as it was, under either setting
   of allowNonModelSelectionParameters. *)
C3_InclusionKept ==
    (Ran /\ FilterValid /\ AllInclude(entry) /\ KeySet(entry) \subseteq S) =>
        /\ outcome = "proceed"
        /\ fields = entry

\* a two-key inclusion over schema paths went through
C3_Witness ==
    /\ Ran
    /\ FilterValid
    /\ AllInclude(entry)
    /\ Len(entry) = 2
    /\ KeySet(entry) \subseteq S
    /\ outcome = "proceed"
    /\ fields = entry

(* C4: an all-include projection with a key that is no schema path, filter
   valid: rejected with UnknownSelectionField when
   allowNonModelSelectionParameters is unset; when it is set the run proceeds
   and the final projection is {f -> include : f in keys(P) and f in S}. *)
C4_InclusionUnknown ==
    (Ran /\ FilterValid /\ AllInclude(entry) /\ ~(KeySet(entry) \subseteq S)) =>
        /\ ~allowNonModelSelectionParameters => outcome = "UnknownSelectionField"
        /\ allowNonModelSelectionParameters =>
              /\ outcome = "proceed"
              /\ Entries(fields) = Including(KeySet(entry) \cap S)

\* a lenient run dropped an unknown key and kept a known one, leaving a path unmentioned
C4_Witness ==
    /\ Ran
    /\ FilterValid
    /\ AllInclude(entry)
    /\ allowNonModelSelectionParameters
    /\ KeySet(entry) \cap S # {}
    /\ KeySet(entry) \ S # {}
    /\ S \ KeySet(entry) # {}
    /\ outcome = "proceed"
    /\ Entries(fields) = Including(KeySet(entry) \cap S)

(* C5: an all-exclude projection whose keys are all schema paths, filter
   valid, proceeds under either flag setting; the final projection is
   {f -> include : f in S and f not in keys(P)}, of size |S| - |P|, and holds
   no key of P. *)
C5_ExclusionKnown ==
    (Ran /\ FilterValid /\ AllExclude(entry) /\ KeySet(entry) \subseteq S) =>
        /\ outcome = "proceed"
        /\ Entries(fields) = Including(S \ KeySet(entry))
        /\ Len(fields) = Cardinality(S) - Len(entry)
        /\ KeySet(fields) \cap KeySet(entry) = {}

\* one of two paths was excluded and the other is what remains
C5_Witness ==
    /\ Ran
    /\ FilterValid
    /\ AllExclude(entry)
    /\ KeySet(entry) \subseteq S
    /\ Len(paths) = 2
    /\ Len(entry) = 1
    /\ outcome = "proceed"
    /\ Len(fields) = 1

(* C6: for an all-exclude projection with a valid filter, the count check
   fails exactly when the projection names a field that is no schema path;
   then the run is rejected with UnknownSelectionField when
   allowNonModelSelectionParameters is unset, and proceeds with
   {f -> include : f in S and f not in keys(P)} when it is set. *)
C6_ExclusionUnknown ==
    (Ran /\ FilterValid /\ AllExclude(entry)) =>
        /\ CountMismatch(entry) <=> ~(KeySet(entry) \subseteq S)
        /\ ~(KeySet(entry) \subseteq S) =>
              /\ ~allowNonModelSelectionParameters => outcome = "UnknownSelectionField"
              /\ allowNonModelSelectionParameters =>
                    /\ outcome = "proceed"
                    /\ Entries(fields) = Including(S \ KeySet(entry))

\* a lenient run excluded a path and a non-path: the path is gone, another path stays
C6_Witness ==
    /\ Ran
    /\ FilterValid
    /\ AllExclude(entry)
    /\ allowNonModelSelectionParameters
    /\ KeySet(entry) \cap S # {}
    /\ KeySet(entry) \ S # {}
    /\ outcome = "proceed"
    /\ fields # <<>>
    /\ Entries(fields) = Including(S \ KeySet(entry))

(* C7: whenever restrictSelect proceeds, the fields the store returns under
   the projection handed on are all schema paths, and that projection holds
   only include markers on schema paths. *)
C7_OnlySchemaFieldsReturned ==
    (Ran /\ outcome = "proceed") =>
        /\ Returned(nextLog[1]) \subseteq S
        /\ \A e \in Entries(nextLog[1]) : e.marker = 1 /\ e.name \in S

(* C8: with allowNonModelQueryParameters unset, a filter with a key that is
   no schema path ends in UnknownFilterField whatever the projection holds;
   UnknownSelectionField is the outcome only when the filter passed
   validation or was exempted from it. *)
C8_FilterBeforeProjection ==
    Ran =>
        /\ (~allowNonModelQueryParameters /\ ~FilterValid) => outcome = "UnknownFilterField"
        /\ outcome = "UnknownSelectionField" => (FilterValid \/ allowNonModelQueryParameters)

\* a strict run with a bad filter key and a projection that would itself be rejected
C8_Witness ==
    /\ Ran
    /\ ~allowNonModelQueryParameters
    /\ ~allowNonModelSelectionParameters
    /\ ~FilterValid
    /\ Len(entry) > 0
    /\ ~(KeySet(entry) \subseteq S)
    /\ outcome = "UnknownFilterField"

(* C9: each invocation of restrictSelect ends either rejected, with the
   projection as it was on entry and next never called, or proceeding, with
   next called exactly once and after the projection was replaced; the
   filter and the schema paths are unchanged in both. *)
C9_TerminalStates ==
    [][ runs' = runs + 1 =>
          /\ conditions' = conditions
          /\ paths' = paths
          /\ \/ /\ outcome' \in {"UnknownFilterField", "UnknownSelectionField"}
                /\ fields' = fields
                /\ nextLog' = <<>>
             \/ /\ outcome' = "proceed"
                /\ nextLog' = << fields' >> ]_vars

\* a rejected exclusion: the rewrite would have changed the projection, and it
\* is as it was on entry, with next never called
C9_Witness ==
    /\ Ran
    /\ AllExclude(entry)
    /\ outcome = "UnknownSelectionField"
    /\ fields = entry
    /\ ExclusionSelect(entry) # entry
    /\ nextLog = <<>>

(* C10: when restrictSelect proceeded on a query with a uniform projection
   and a valid filter, a second run on the same query proceeds too and
   leaves the projection as the first run left it. *)
C10_Idempotent ==
    (runs = 2 /\ prevOutcome = "proceed" /\ Uniform(given) /\ FilterValid) =>
        /\ outcome = "proceed"
        /\ fields = entry

============================================================================
